---- MODULE Spec2Model ----
(***************************************************************************)
(* Model of the Flask MFA application in src/app.py: the User table, the   *)
(* per-client Flask session, and one action per POST/GET handler that      *)
(* reads or writes them.  The Twilio Verify service and the database       *)
(* commit are external: their answers are inputs of the actions.           *)
(***************************************************************************)
EXTENDS Integers, Sequences, FiniteSets, TLC

(* ---------------- bounds of the model ---------------- *)
\* number of requests explored in one behaviour
MaxSteps == 3

(* ---------------- optional values (Python None / absent key) ---------- *)
None == {}
Some(x) == {x}
The(o) == CHOOSE x \in o : TRUE

(* ---------------- strings as character sequences ---------------------- *)
Whitespace == {" "}
Digits == {"0", "1", "2", "3", "4", "5", "6", "7", "8", "9"}

RECURSIVE LStrip(_)
LStrip(s) == IF s # <<>> /\ Head(s) \in Whitespace THEN LStrip(Tail(s)) ELSE s

RECURSIVE RStrip(_)
RStrip(s) ==
    IF s # <<>> /\ s[Len(s)] \in Whitespace
    THEN RStrip(SubSeq(s, 1, Len(s) - 1))
    ELSE s

\* str.strip()
Strip(s) == RStrip(LStrip(s))

\* str.isdigit(): non-empty and every character a digit
IsDigit(s) == Len(s) > 0 /\ \A i \in 1..Len(s) : s[i] \in Digits

\* str.startswith('+')
StartsWithPlus(s) == Len(s) > 0 /\ s[1] = "+"

\* mutant: the length of the phone is not checked
PhoneInvalid_NoLength(phone) ==
    \/ ~StartsWithPlus(phone)
    \/ ~IsDigit(SubSeq(phone, 2, Len(phone)))

\* register / forgot_password: the E.164 check, negated in the code
MinPhoneLen == 5
PhoneInvalid(phone) ==
    \/ ~StartsWithPlus(phone)
    \/ Len(phone) < MinPhoneLen
    \/ ~IsDigit(SubSeq(phone, 2, Len(phone)))

(* ---------------- input alphabets ------------------------------------- *)
Sessions == {"s1", "s2"}

UA == <<"a">>
UB == <<"b">>
Usernames == {UA, UB}
\* what a client types: the second is stripped to UB
UsernameInputs == {UA, <<" ", "b">>}

Passwords == {"p1", "p2"}

E1 == <<"x">>
E2 == <<"y">>
Emails == {E1, E2}

P1 == <<"+", "1", "2", "3", "4">>
P2 == <<"+", "5", "6", "7", "8">>
Phones == {P1, P2}
TooShort == <<"+", "1", "2", "3">>
NoPlus == <<"1", "2", "3", "4", "5">>
NonDigit == <<"+", "1", "2", "a", "4">>
\* the phone field of the login and reset forms; the last is stripped to P2
PhoneInputs == {P1, TooShort, <<"+", "5", "6", "7", "8", " ">>}

\* the registration forms a client submits
Form(username, password, email, phone) ==
    [username |-> username, password |-> password, email |-> email, phone |-> phone]
RegForms ==
    { Form(UA, "p1", E1, P1),
      Form(<<" ", "b">>, "p2", <<"y", " ">>, <<" ", "+", "5", "6", "7", "8">>),
      Form(UA, "p2", E2, P2),       \* the username of the first form again
      Form(UB, "p1", E1, P2),       \* the email of the first form
      Form(UB, "p1", E2, P1),       \* the phone of the first form
      Form(UB, "p1", E2, TooShort),
      Form(UB, "p1", E2, NoPlus),
      Form(UB, "p1", E2, NonDigit) }

\* a captured face image: its length and its content
MinFaceLen == 100
Sample(n, t) == [len |-> n, tag |-> t]
EmptySample == Sample(0, 0)
Samples == {EmptySample, Sample(99, 1), Sample(100, 1), Sample(101, 1)}

\* Twilio Verify answers: verifications.create and verification_checks.create
SendResults == {"pending", "canceled", "raise"}
CheckResults == {"approved", "pending", "raise"}
NextRoutes == {"login_otp_verify_page", "reset_password_page"}

(* ---------------- state ----------------------------------------------- *)
VARIABLES
    db,       \* rows of the User table
    session,  \* the Flask session of each client
    resp,     \* the last request and its response
    steps     \* requests handled so far

vars == <<db, session, resp, steps>>

\* class User: one row
User(username, password, email, phone, face_data) ==
    [username |-> username, password |-> password, email |-> email,
     phone |-> phone, face_data |-> face_data]

\* a Flask session with no keys
EmptySession ==
    [logged_in |-> None, username |-> None, login_method |-> None,
     otp_login_pending |-> None, registration_data |-> None]

\* Query.first(): the first matching row or None
First(rows) == IF rows = {} THEN None ELSE Some(CHOOSE r \in rows : TRUE)

\* Python truthiness of a nullable string column holding a sample
Truthy(face) == face # None /\ The(face).len > 0

\* the response of a request; gw is the gateway call made, if any
Response(op, sid, user, out, gw) ==
    [op |-> op, sid |-> sid, user |-> user, out |-> out, gw |-> gw]
GwCall(kind, to) == Some([kind |-> kind, to |-> to])

Tick == steps < MaxSteps /\ steps' = steps + 1

(* ---------------- queries on the User table --------------------------- *)
\* User.query.filter_by(username=username)
ByUsername(rows, username) == {r \in rows : r.username = username}

\* mutant: the password is left out of the filter
ByUsernamePassword_AnyPassword(rows, username, password) ==
    {r \in rows : r.username = username}

\* User.query.filter_by(username=username, password=password)
ByUsernamePassword(rows, username, password) ==
    {r \in rows : r.username = username /\ r.password = password}

\* mutant: the phone is left out of the filter
ByUsernamePhone_AnyPhone(rows, username, phone) ==
    {r \in rows : r.username = username}

\* User.query.filter_by(username=username, phone=phone)
ByUsernamePhone(rows, username, phone) ==
    {r \in rows : r.username = username /\ r.phone = phone}

(* ---------------- initial states -------------------------------------- *)
InitCommon ==
    /\ session = [s \in Sessions |-> EmptySession]
    /\ resp = Response("start", "s1", <<>>, "none", None)
    /\ steps = 0

\* the table an application start finds: empty, or holding rows that earlier
\* registrations wrote (the first two forms of RegForms, enrolled)
RowA == User(UA, "p1", E1, P1, Some(Sample(101, 1)))
RowB == User(UB, "p2", E2, P2, Some(Sample(100, 1)))
Stores == {{}, {RowA}, {RowA, RowB}}

Init == db \in Stores /\ InitCommon

\* rows written before enrolment was part of registration: face_data is a
\* nullable column, and such rows hold NULL or the empty string
LegacyStores ==
    { {User(UA, "p1", E1, P1, None)},
      {User(UA, "p1", E1, P1, Some(EmptySample))} }

InitLegacy == db \in LegacyStores /\ InitCommon


\* two clients have both passed /register with the same username, which no
\* row has, and neither has enrolled: each session holds the registration
\* data of its form (the first and the third form of RegForms); the last
\* request was the second client's submit, and the bound counts the requests
\* that follow
RaceRegistrations ==
    [s \in Sessions |->
        IF s = "s1"
        THEN [username |-> UA, password |-> "p1", email |-> E1, phone |-> P1]
        ELSE [username |-> UA, password |-> "p2", email |-> E2, phone |-> P2]]

InitRace ==
    /\ db = {}
    /\ session = [s \in Sessions |->
                    [EmptySession EXCEPT
                        !.registration_data = Some(RaceRegistrations[s])]]
    /\ resp = Response("register", "s2", UA, "redirect_face_scan_page", None)
    /\ steps = 0

(* ---------------- /register (POST) ------------------------------------ *)
register(s, uraw, password, eraw, praw) ==
    LET username == Strip(uraw)
        email == Strip(eraw)
        phone == Strip(praw)
        existing_user == First(ByUsername(db, username))
    IN  /\ Tick
        /\ UNCHANGED db
        /\ IF existing_user # None
           THEN /\ resp' = Response("register", s, username, "username_exists", None)
                /\ UNCHANGED session
           ELSE IF PhoneInvalid(phone)
           THEN /\ resp' = Response("register", s, username, "phone_invalid", None)
                /\ UNCHANGED session
           ELSE /\ session' = [session EXCEPT ![s].registration_data =
                       Some([username |-> username, password |-> password,
                             email |-> email, phone |-> phone])]
                /\ resp' = Response("register", s, username, "redirect_face_scan_page", None)

(* ---------------- /save-reference-face (POST) ------------------------ *)
\* mutant: only a missing capture is rejected, the size is not compared
FaceRejected_MissingOnly(face_data) == face_data.len = 0

\* mutant: the size comparison is inverted
FaceRejected_Inverted(face_data) == face_data.len >= MinFaceLen

\* the capture check of save_reference_face
FaceRejected(face_data) == face_data.len = 0 \/ face_data.len < MinFaceLen

\* mutant: the email column is not unique
UniqueViolation_NoEmail(rows, row) ==
    \E r \in rows : r.username = row.username \/ r.phone = row.phone


\* mutant: the username column is not unique
UniqueViolation_NoUsername(rows, row) ==
    \E r \in rows : r.email = row.email \/ r.phone = row.phone

\* mutant: only the username column is unique
UniqueViolation_UsernameOnly(rows, row) ==
    \E r \in rows : r.username = row.username

\* the unique=True columns of User: what makes the INSERT fail
UniqueViolation(rows, row) ==
    \E r \in rows : \/ r.username = row.username
                    \/ r.email = row.email
                    \/ r.phone = row.phone

\* mutant: any pending registration is taken, whatever its username
PendingRegistrationFor_AnyUsername(registration_data, username) ==
    registration_data # None

\* "registration_data and registration_data['username'] == username"
PendingRegistrationFor(registration_data, username) ==
    registration_data # None /\ The(registration_data).username = username

\* mutant: the capture is not assigned to the row
SetFaceData_Dropped(user, face_data) == user

\* "user.face_data = face_data"
SetFaceData(user, face_data) == [user EXCEPT !.face_data = Some(face_data)]

\* mutant: the capture is not stored with the row
NewUser_NoFace(rd, face_data) ==
    User(rd.username, rd.password, rd.email, rd.phone, None)

\* the row built from the session's registration data and the capture
NewUser(rd, face_data) ==
    User(rd.username, rd.password, rd.email, rd.phone, Some(face_data))

\* mutant: the registration data stays in the session after the insert
save_reference_face_KeepsRegistration(s, uraw, face_data, commit_ok) ==
    LET username == Strip(uraw)
        registration_data == session[s].registration_data
        user == First(ByUsername(db, username))
    IN  /\ Tick
        /\ UNCHANGED session
        /\ IF FaceRejected(face_data)
           THEN /\ resp' = Response("save_reference_face", s, username,
                                    "redirect_face_scan_page", None)
                /\ UNCHANGED db
           ELSE IF PendingRegistrationFor(registration_data, username)
           THEN LET new_user == NewUser(The(registration_data), face_data)
                IN  IF commit_ok /\ ~UniqueViolation(db, new_user)
                    THEN /\ db' = db \cup {new_user}
                         /\ resp' = Response("save_reference_face", s, username,
                                             "registered", None)
                    ELSE /\ resp' = Response("save_reference_face", s, username,
                                             "db_error", None)
                         /\ UNCHANGED db
           ELSE IF user # None /\ commit_ok
           THEN /\ db' = (db \ user) \cup {SetFaceData(The(user), face_data)}
                /\ resp' = Response("save_reference_face", s, username,
                                    "face_updated", None)
           ELSE /\ resp' = Response("save_reference_face", s, username,
                                    IF user # None THEN "update_error"
                                    ELSE "redirect_login", None)
                /\ UNCHANGED db

\* mutant: the registration data is popped before the insert is tried
save_reference_face_PopsFirst(s, uraw, face_data, commit_ok) ==
    LET username == Strip(uraw)
        registration_data == session[s].registration_data
        user == First(ByUsername(db, username))
    IN  /\ Tick
        /\ IF FaceRejected(face_data)
           THEN /\ resp' = Response("save_reference_face", s, username,
                                    "redirect_face_scan_page", None)
                /\ UNCHANGED <<db, session>>
           ELSE IF PendingRegistrationFor(registration_data, username)
           THEN LET new_user == NewUser(The(registration_data), face_data)
                IN  /\ session' = [session EXCEPT ![s].registration_data = None]
                    /\ IF commit_ok /\ ~UniqueViolation(db, new_user)
                       THEN /\ db' = db \cup {new_user}
                            /\ resp' = Response("save_reference_face", s, username,
                                                "registered", None)
                       ELSE /\ resp' = Response("save_reference_face", s, username,
                                                "db_error", None)
                            /\ UNCHANGED db
           ELSE IF user # None /\ commit_ok
           THEN /\ db' = (db \ user) \cup {SetFaceData(The(user), face_data)}
                /\ resp' = Response("save_reference_face", s, username,
                                    "face_updated", None)
                /\ UNCHANGED session
           ELSE /\ resp' = Response("save_reference_face", s, username,
                                    IF user # None THEN "update_error"
                                    ELSE "redirect_login", None)
                /\ UNCHANGED <<db, session>>

save_reference_face(s, uraw, face_data, commit_ok) ==
    LET username == Strip(uraw)
        registration_data == session[s].registration_data
        user == First(ByUsername(db, username))
    IN  /\ Tick
        /\ IF FaceRejected(face_data)
           THEN /\ resp' = Response("save_reference_face", s, username,
                                    "redirect_face_scan_page", None)
                /\ UNCHANGED <<db, session>>
           ELSE IF PendingRegistrationFor(registration_data, username)
           THEN LET new_user == NewUser(The(registration_data), face_data)
                IN  IF commit_ok /\ ~UniqueViolation(db, new_user)
                    THEN /\ db' = db \cup {new_user}
                         /\ session' = [session EXCEPT ![s].registration_data = None]
                         /\ resp' = Response("save_reference_face", s, username,
                                             "registered", None)
                    ELSE /\ resp' = Response("save_reference_face", s, username,
                                             "db_error", None)
                         /\ UNCHANGED <<db, session>>
           ELSE IF user # None
           THEN IF commit_ok
                THEN /\ db' = (db \ user) \cup
                              {SetFaceData(The(user), face_data)}
                     /\ resp' = Response("save_reference_face", s, username,
                                         "face_updated", None)
                     /\ UNCHANGED session
                ELSE /\ resp' = Response("save_reference_face", s, username,
                                         "update_error", None)
                     /\ UNCHANGED <<db, session>>
           ELSE /\ resp' = Response("save_reference_face", s, username,
                                    "redirect_login", None)
                /\ UNCHANGED <<db, session>>

(* ---------------- session establishment ------------------------------- *)
\* mutant: the login method is written only when the session has none yet
LoggedIn_KeepsMethod(sess, username, method) ==
    [sess EXCEPT !.logged_in = Some(TRUE), !.username = Some(username),
                 !.login_method = IF @ = None THEN Some(method) ELSE @]

\* mutant: the login method is not recorded
LoggedIn_NoMethod(sess, username, method) ==
    [sess EXCEPT !.logged_in = Some(TRUE), !.username = Some(username)]

\* mutant: the logged_in flag is not set
LoggedIn_NoFlag(sess, username, method) ==
    [sess EXCEPT !.username = Some(username), !.login_method = Some(method)]

\* the three assignments every successful login makes
LoggedIn(sess, username, method) ==
    [sess EXCEPT !.logged_in = Some(TRUE), !.username = Some(username),
                 !.login_method = Some(method)]

(* ---------------- /login-password-verify (POST) ----------------------- *)
\* mutant: an unknown username gets an answer of its own
password_verify_NamesUnknown(rows, sess, username, password) ==
    LET user == First(ByUsernamePassword(rows, username, password))
    IN  IF user # None
        THEN [out |-> "redirect_dashboard",
              sess |-> LoggedIn(sess, The(user).username, "Password")]
        ELSE IF ByUsername(rows, username) = {}
        THEN [out |-> "user_not_found", sess |-> sess]
        ELSE [out |-> "invalid_credentials", sess |-> sess]

\* the body of the handler as a function of the table and the session: the
\* answer and the session it leaves
password_verify(rows, sess, username, password) ==
    LET user == First(ByUsernamePassword(rows, username, password))
    IN  IF user # None
        THEN [out |-> "redirect_dashboard",
              sess |-> LoggedIn(sess, The(user).username, "Password")]
        ELSE [out |-> "invalid_credentials", sess |-> sess]

login_password_verify(s, uraw, password) ==
    LET username == Strip(uraw)
        result == password_verify(db, session[s], username, password)
    IN  /\ Tick
        /\ UNCHANGED db
        /\ session' = [session EXCEPT ![s] = result.sess]
        /\ resp' = Response("login_password_verify", s, username, result.out, None)

\* mutant: the challenge is recorded before the gateway has answered
login_otp_send_RecordsFirst(s, uraw, praw, send) ==
    LET username == Strip(uraw)
        phone == Strip(praw)
        user == First(ByUsernamePhone(db, username, phone))
    IN  /\ Tick
        /\ UNCHANGED db
        /\ IF user = None
           THEN /\ resp' = Response("login_otp_send", s, username, "not_found", None)
                /\ UNCHANGED session
           ELSE /\ session' = [session EXCEPT ![s].otp_login_pending = Some(username)]
                /\ resp' = Response("login_otp_send", s, username,
                                    IF send = "raise" THEN "sms_error"
                                    ELSE IF send = "pending"
                                    THEN "redirect_login_otp_verify_page"
                                    ELSE "sms_failed",
                                    GwCall("create", The(user).phone))

\* mutant: a challenge already held by the session is not replaced
login_otp_send_KeepsFirst(s, uraw, praw, send) ==
    LET username == Strip(uraw)
        phone == Strip(praw)
        user == First(ByUsernamePhone(db, username, phone))
    IN  /\ Tick
        /\ UNCHANGED db
        /\ IF user = None
           THEN /\ resp' = Response("login_otp_send", s, username, "not_found", None)
                /\ UNCHANGED session
           ELSE /\ session' = IF send = "pending" /\ session[s].otp_login_pending = None
                              THEN [session EXCEPT ![s].otp_login_pending = Some(username)]
                              ELSE session
                /\ resp' = Response("login_otp_send", s, username,
                                    IF send = "raise" THEN "sms_error"
                                    ELSE IF send = "pending"
                                    THEN "redirect_login_otp_verify_page"
                                    ELSE "sms_failed",
                                    GwCall("create", The(user).phone))

(* ---------------- /login-otp-send (POST) ------------------------------ *)
\* the account login_otp_send dispatches for, if any
otp_send_user(rows, username, phone) ==
    First(ByUsernamePhone(rows, username, phone))

login_otp_send(s, uraw, praw, send) ==
    LET username == Strip(uraw)
        phone == Strip(praw)
        user == otp_send_user(db, username, phone)
    IN  /\ Tick
        /\ UNCHANGED db
        /\ IF user = None
           THEN /\ resp' = Response("login_otp_send", s, username, "not_found", None)
                /\ UNCHANGED session
           ELSE LET gw == GwCall("create", The(user).phone)
                IN  IF send = "raise"
                    THEN /\ resp' = Response("login_otp_send", s, username,
                                             "sms_error", gw)
                         /\ UNCHANGED session
                    ELSE IF send = "pending"
                    THEN /\ session' = [session EXCEPT
                                ![s].otp_login_pending = Some(username)]
                         /\ resp' = Response("login_otp_send", s, username,
                                             "redirect_login_otp_verify_page", gw)
                    ELSE /\ resp' = Response("login_otp_send", s, username,
                                             "sms_failed", gw)
                         /\ UNCHANGED session

(* ---------------- /login-otp-verify (POST) ---------------------------- *)
\* mutant: any pending challenge of the session is taken, whatever its username
PendingChallengeFor_AnyUser(sess, username) == sess.otp_login_pending # None

\* mutant: the pending challenge is not compared
PendingChallengeFor_Unchecked(sess, username) == TRUE

\* "session.get('otp_login_pending') != username", negated
PendingChallengeFor(sess, username) == sess.otp_login_pending = Some(username)

\* mutant: an approved check logs in but leaves the pending challenge
login_otp_verify_page_KeepsChallenge(s, has_arg, uraw, check) ==
    LET username == Strip(uraw)
        user == First(ByUsername(db, username))
    IN  /\ Tick
        /\ UNCHANGED db
        /\ IF ~has_arg /\ session[s].otp_login_pending = None
           THEN /\ resp' = Response("login_otp_verify_page", s, username,
                                    "redirect_login_otp_page", None)
                /\ UNCHANGED session
           ELSE IF user = None \/ session[s].otp_login_pending # Some(username)
           THEN /\ resp' = Response("login_otp_verify_page", s, username,
                                    "session_error", None)
                /\ UNCHANGED session
           ELSE LET gw == GwCall("check", The(user).phone)
                IN  IF check = "raise"
                    THEN /\ resp' = Response("login_otp_verify_page", s, username,
                                             "verify_error", gw)
                         /\ UNCHANGED session
                    ELSE IF check = "approved"
                    THEN /\ session' = [session EXCEPT
                                ![s] = LoggedIn(@, username, "OTP")]
                         /\ resp' = Response("login_otp_verify_page", s, username,
                                             "redirect_dashboard", gw)
                    ELSE /\ resp' = Response("login_otp_verify_page", s, username,
                                             "redirect_login_otp_verify_page", gw)
                         /\ UNCHANGED session

\* has_arg: the URL carries a non-empty ?username=; without it the handler
\* falls back on the session's pending username and, if there is none,
\* redirects to the OTP login page before it reads the form
login_otp_verify_page(s, has_arg, uraw, check) ==
    LET username == Strip(uraw)
        user == First(ByUsername(db, username))
    IN  /\ Tick
        /\ UNCHANGED db
        /\ IF ~has_arg /\ session[s].otp_login_pending = None
           THEN /\ resp' = Response("login_otp_verify_page", s, username,
                                    "redirect_login_otp_page", None)
                /\ UNCHANGED session
           ELSE IF user = None \/ ~PendingChallengeFor(session[s], username)
           THEN /\ resp' = Response("login_otp_verify_page", s, username,
                                    "session_error", None)
                /\ UNCHANGED session
           ELSE LET gw == GwCall("check", The(user).phone)
                IN  IF check = "raise"
                    THEN /\ resp' = Response("login_otp_verify_page", s, username,
                                             "verify_error", gw)
                         /\ UNCHANGED session
                    ELSE IF check = "approved"
                    THEN /\ session' = [session EXCEPT
                                ![s] = [LoggedIn(@, username, "OTP") EXCEPT
                                           !.otp_login_pending = None]]
                         /\ resp' = Response("login_otp_verify_page", s, username,
                                             "redirect_dashboard", gw)
                    ELSE /\ resp' = Response("login_otp_verify_page", s, username,
                                             "redirect_login_otp_verify_page", gw)
                         /\ UNCHANGED session

(* ---------------- /login-face-verify (POST) --------------------------- *)
MockFaceLen == 100
mock_verify_face(reference_data, captured_data) ==
    /\ Truthy(reference_data)
    /\ captured_data.len > 0
    /\ captured_data.len > MockFaceLen

\* mutant: the enrolment check is skipped
FaceNotSetUp_Skipped(user) == FALSE

\* "not user.face_data"
FaceNotSetUp(user) == ~Truthy(user.face_data)

\* mutant: a failed scan logs the session out
login_face_verify_LogsOutOnFail(s, uraw, captured_face_data) ==
    LET username == Strip(uraw)
        user == First(ByUsername(db, username))
    IN  /\ Tick
        /\ UNCHANGED db
        /\ IF user = None
           THEN /\ resp' = Response("login_face_verify", s, username,
                                    "user_not_found", None)
                /\ UNCHANGED session
           ELSE IF FaceNotSetUp(The(user))
           THEN /\ resp' = Response("login_face_verify", s, username,
                                    "face_not_set_up", None)
                /\ UNCHANGED session
           ELSE IF mock_verify_face(The(user).face_data, captured_face_data)
           THEN /\ session' = [session EXCEPT
                       ![s] = LoggedIn(@, The(user).username, "Face Scan")]
                /\ resp' = Response("login_face_verify", s, username,
                                    "redirect_dashboard", None)
           ELSE /\ session' = [session EXCEPT ![s].logged_in = None,
                                              ![s].username = None,
                                              ![s].login_method = None]
                /\ resp' = Response("login_face_verify", s, username,
                                    "face_scan_failed", None)

login_face_verify(s, uraw, captured_face_data) ==
    LET username == Strip(uraw)
        user == First(ByUsername(db, username))
    IN  /\ Tick
        /\ UNCHANGED db
        /\ IF user = None
           THEN /\ resp' = Response("login_face_verify", s, username,
                                    "user_not_found", None)
                /\ UNCHANGED session
           ELSE IF FaceNotSetUp(The(user))
           THEN /\ resp' = Response("login_face_verify", s, username,
                                    "face_not_set_up", None)
                /\ UNCHANGED session
           ELSE IF mock_verify_face(The(user).face_data, captured_face_data)
           THEN /\ session' = [session EXCEPT
                       ![s] = LoggedIn(@, The(user).username, "Face Scan")]
                /\ resp' = Response("login_face_verify", s, username,
                                    "redirect_dashboard", None)
           ELSE /\ resp' = Response("login_face_verify", s, username,
                                    "face_scan_failed", None)
                /\ UNCHANGED session

\* mutant: the login flag is application-wide instead of per session
dashboard_SharedFlag(s) ==
    /\ Tick
    /\ UNCHANGED <<db, session>>
    /\ IF \E t \in Sessions : session[t].logged_in = Some(TRUE)
       THEN LET t == CHOOSE t \in Sessions : session[t].logged_in = Some(TRUE)
            IN  resp' = Response("dashboard", s, The(session[t].username),
                                 "dashboard", None)
       ELSE resp' = Response("dashboard", s, <<>>, "redirect_login", None)

(* ---------------- /dashboard (GET) ------------------------------------ *)
dashboard(s) ==
    LET username == The(session[s].username)
        user == First(ByUsername(db, username))
    IN  /\ Tick
        /\ UNCHANGED db
        /\ IF session[s].logged_in = Some(TRUE)
           THEN IF user = None
                THEN /\ session' = [session EXCEPT ![s].logged_in = None,
                                                   ![s].username = None]
                     /\ resp' = Response("dashboard", s, username, "auth_error", None)
                ELSE /\ resp' = Response("dashboard", s, The(user).username,
                                         "dashboard", None)
                     /\ UNCHANGED session
           ELSE /\ resp' = Response("dashboard", s, <<>>, "redirect_login", None)
                /\ UNCHANGED session

(* ---------------- /logout (GET) --------------------------------------- *)
\* mutant: only the login keys are cleared, the flow keys stay
logout_LoginKeysOnly(s) ==
    /\ Tick
    /\ UNCHANGED db
    /\ session' = [session EXCEPT ![s] =
           [@ EXCEPT !.logged_in = None, !.username = None, !.login_method = None]]
    /\ resp' = Response("logout", s, <<>>, "logged_out", None)

\* keys_to_clear, restricted to the keys any handler sets
logout(s) ==
    /\ Tick
    /\ UNCHANGED db
    /\ session' = [session EXCEPT ![s] =
           [@ EXCEPT !.logged_in = None, !.username = None, !.login_method = None,
                     !.otp_login_pending = None, !.registration_data = None]]
    /\ resp' = Response("logout", s, <<>>, "logged_out", None)

\* mutant: a resend is served only to the session that holds the challenge
resend_otp_NeedsChallenge(s, uraw, next_route, send) ==
    LET username == Strip(uraw)
        user == First(ByUsername(db, username))
    IN  /\ Tick
        /\ UNCHANGED <<db, session>>
        /\ IF user = None \/ session[s].otp_login_pending # Some(username)
           THEN resp' = Response("resend_otp", s, username,
                                 IF next_route = "reset_password_page"
                                 THEN "redirect_forgot_password"
                                 ELSE "redirect_login_otp_page", None)
           ELSE LET gw == GwCall("create", The(user).phone)
                IN  IF send = "raise"
                    THEN resp' = Response("resend_otp", s, username, "sms_error", gw)
                    ELSE IF send = "pending"
                    THEN resp' = Response("resend_otp", s, username,
                                          "redirect_" \o next_route, gw)
                    ELSE resp' = Response("resend_otp", s, username, "sms_failed", gw)

(* ---------------- /resend-otp (GET) ----------------------------------- *)
resend_otp(s, uraw, next_route, send) ==
    LET username == Strip(uraw)
        user == First(ByUsername(db, username))
    IN  /\ Tick
        /\ UNCHANGED <<db, session>>
        /\ IF user = None
           THEN resp' = Response("resend_otp", s, username,
                                 IF next_route = "reset_password_page"
                                 THEN "redirect_forgot_password"
                                 ELSE "redirect_login_otp_page", None)
           ELSE LET gw == GwCall("create", The(user).phone)
                IN  IF send = "raise"
                    THEN resp' = Response("resend_otp", s, username, "sms_error", gw)
                    ELSE IF send = "pending"
                    THEN resp' = Response("resend_otp", s, username,
                                          "redirect_" \o next_route, gw)
                    ELSE resp' = Response("resend_otp", s, username, "sms_failed", gw)

\* mutant: the account is looked up by username, and a phone that is not the
\* stored one gets an answer of its own
forgot_password_NamesMismatch(s, uraw, praw, send) ==
    LET username == Strip(uraw)
        phone == Strip(praw)
        user == First(ByUsername(db, username))
    IN  /\ Tick
        /\ UNCHANGED <<db, session>>
        /\ IF PhoneInvalid(phone)
           THEN resp' = Response("forgot_password", s, username, "phone_invalid", None)
           ELSE IF user = None
           THEN resp' = Response("forgot_password", s, username, "not_found", None)
           ELSE IF The(user).phone # phone
           THEN resp' = Response("forgot_password", s, username, "phone_mismatch", None)
           ELSE LET gw == GwCall("create", The(user).phone)
                IN  IF send = "raise"
                    THEN resp' = Response("forgot_password", s, username, "sms_error", gw)
                    ELSE IF send = "pending"
                    THEN resp' = Response("forgot_password", s, The(user).username,
                                          "redirect_reset_password_page", gw)
                    ELSE resp' = Response("forgot_password", s, username,
                                          "sms_failed", gw)

(* ---------------- /forgot-password (POST) ----------------------------- *)
\* mutant: the reset request looks the account up by username alone
forgot_password_user_ByUsername(rows, username, phone) ==
    IF PhoneInvalid(phone) THEN None ELSE First(ByUsername(rows, username))

\* the account forgot_password dispatches for, if any: the format check comes
\* before the query
forgot_password_user(rows, username, phone) ==
    IF PhoneInvalid(phone)
    THEN None
    ELSE First(ByUsernamePhone(rows, username, phone))

forgot_password(s, uraw, praw, send) ==
    LET username == Strip(uraw)
        phone == Strip(praw)
        user == forgot_password_user(db, username, phone)
    IN  /\ Tick
        /\ UNCHANGED <<db, session>>
        /\ IF PhoneInvalid(phone)
           THEN resp' = Response("forgot_password", s, username, "phone_invalid", None)
           ELSE IF user = None
           THEN resp' = Response("forgot_password", s, username, "not_found", None)
           ELSE LET gw == GwCall("create", The(user).phone)
                IN  IF send = "raise"
                    THEN resp' = Response("forgot_password", s, username, "sms_error", gw)
                    ELSE IF send = "pending"
                    THEN resp' = Response("forgot_password", s, The(user).username,
                                          "redirect_reset_password_page", gw)
                    ELSE resp' = Response("forgot_password", s, username,
                                          "sms_failed", gw)

\* mutant: a denied code sends the caller back to the request form
reset_password_page_DeniedToRequest(s, uraw, new_password, check) ==
    LET username == Strip(uraw)
        user == First(ByUsername(db, username))
    IN  /\ Tick
        /\ UNCHANGED session
        /\ IF user = None
           THEN /\ resp' = Response("reset_password_page", s, username,
                                    "user_not_found", None)
                /\ UNCHANGED db
           ELSE LET gw == GwCall("check", The(user).phone)
                IN  IF check = "raise"
                    THEN /\ resp' = Response("reset_password_page", s, username,
                                             "verify_error", gw)
                         /\ UNCHANGED db
                    ELSE IF check = "approved"
                    THEN /\ db' = (db \ user) \cup
                                  {[The(user) EXCEPT !.password = new_password]}
                         /\ resp' = Response("reset_password_page", s, username,
                                             "reset_ok", gw)
                    ELSE /\ resp' = Response("reset_password_page", s, username,
                                             "redirect_forgot_password", gw)
                         /\ UNCHANGED db

\* mutant: the new password is written to every row
reset_password_page_AllRows(s, uraw, new_password, check) ==
    LET username == Strip(uraw)
        user == First(ByUsername(db, username))
    IN  /\ Tick
        /\ UNCHANGED session
        /\ IF user = None
           THEN /\ resp' = Response("reset_password_page", s, username,
                                    "user_not_found", None)
                /\ UNCHANGED db
           ELSE LET gw == GwCall("check", The(user).phone)
                IN  IF check = "raise"
                    THEN /\ resp' = Response("reset_password_page", s, username,
                                             "verify_error", gw)
                         /\ UNCHANGED db
                    ELSE IF check = "approved"
                    THEN /\ db' = {[r EXCEPT !.password = new_password] : r \in db}
                         /\ resp' = Response("reset_password_page", s, username,
                                             "reset_ok", gw)
                    ELSE /\ resp' = Response("reset_password_page", s, username,
                                             "redirect_reset_password_page", gw)
                         /\ UNCHANGED db

\* mutant: the reset is served only to a session that holds a pending
\* challenge of the username
reset_password_page_NeedsPending(s, uraw, new_password, check) ==
    LET username == Strip(uraw)
        user == First(ByUsername(db, username))
    IN  /\ Tick
        /\ UNCHANGED session
        /\ IF user = None
           THEN /\ resp' = Response("reset_password_page", s, username,
                                    "user_not_found", None)
                /\ UNCHANGED db
           ELSE IF session[s].otp_login_pending # Some(username)
           THEN /\ resp' = Response("reset_password_page", s, username,
                                    "session_error", None)
                /\ UNCHANGED db
           ELSE LET gw == GwCall("check", The(user).phone)
                IN  IF check = "raise"
                    THEN /\ resp' = Response("reset_password_page", s, username,
                                             "verify_error", gw)
                         /\ UNCHANGED db
                    ELSE IF check = "approved"
                    THEN /\ db' = (db \ user) \cup
                                  {[The(user) EXCEPT !.password = new_password]}
                         /\ resp' = Response("reset_password_page", s, username,
                                             "reset_ok", gw)
                    ELSE /\ resp' = Response("reset_password_page", s, username,
                                             "redirect_reset_password_page", gw)
                         /\ UNCHANGED db

(* ---------------- /reset-password (POST) ------------------------------ *)
\* mutant: the new password is not assigned
SetPassword_Dropped(user, new_password) == user

\* "user.password = new_password"
SetPassword(user, new_password) == [user EXCEPT !.password = new_password]

reset_password_page(s, uraw, new_password, check) ==
    LET username == Strip(uraw)
        user == First(ByUsername(db, username))
    IN  /\ Tick
        /\ UNCHANGED session
        /\ IF user = None
           THEN /\ resp' = Response("reset_password_page", s, username,
                                    "user_not_found", None)
                /\ UNCHANGED db
           ELSE LET gw == GwCall("check", The(user).phone)
                IN  IF check = "raise"
                    THEN /\ resp' = Response("reset_password_page", s, username,
                                             "verify_error", gw)
                         /\ UNCHANGED db
                    ELSE IF check = "approved"
                    THEN /\ db' = (db \ user) \cup
                                  {SetPassword(The(user), new_password)}
                         /\ resp' = Response("reset_password_page", s, username,
                                             "reset_ok", gw)
                    ELSE /\ resp' = Response("reset_password_page", s, username,
                                             "redirect_reset_password_page", gw)
                         /\ UNCHANGED db

Next ==
    \/ \E s \in Sessions, f \in RegForms :
          register(s, f.username, f.password, f.email, f.phone)
    \/ \E s \in Sessions, u \in UsernameInputs, f \in Samples, ok \in BOOLEAN :
          save_reference_face(s, u, f, ok)
    \/ \E s \in Sessions, u \in UsernameInputs, p \in Passwords :
          login_password_verify(s, u, p)
    \/ \E s \in Sessions, u \in UsernameInputs, ph \in PhoneInputs, r \in SendResults :
          login_otp_send(s, u, ph, r)
    \/ \E s \in Sessions, q \in BOOLEAN, u \in UsernameInputs, c \in CheckResults :
          login_otp_verify_page(s, q, u, c)
    \/ \E s \in Sessions, u \in UsernameInputs, f \in Samples :
          login_face_verify(s, u, f)
    \/ \E s \in Sessions : dashboard(s)
    \/ \E s \in Sessions : logout(s)
    \/ \E s \in Sessions, u \in UsernameInputs, n \in NextRoutes, r \in SendResults :
          resend_otp(s, u, n, r)
    \/ \E s \in Sessions, u \in UsernameInputs, ph \in PhoneInputs, r \in SendResults :
          forgot_password(s, u, ph, r)
    \/ \E s \in Sessions, u \in UsernameInputs, p \in Passwords, c \in CheckResults :
          reset_password_page(s, u, p, c)

Spec == Init /\ [][Next]_vars

\* the same handlers over a table that already holds a row without face data
SpecLegacy == InitLegacy /\ [][Next]_vars

\* the same handlers after two clients submitted one username
SpecRace == InitRace /\ [][Next]_vars

(* ====================================================================== *)
(* Properties                                                             *)
(* ====================================================================== *)
\* the session is logged in as username through method
Authenticated(sess, username, method) ==
    /\ sess.logged_in = Some(TRUE)
    /\ sess.username = Some(username)
    /\ sess.login_method = Some(method)

\* the keys of a session that say who is logged in
AuthKeys(sess) == <<sess.logged_in, sess.username, sess.login_method>>

\* C1: a password login whose (username, password), as the handler reads them,
\* match no row answers "invalid credentials" and leaves every session as it
\* was, whether or not a row with that username exists.
C1_WrongSecretNoSession ==
    [][\A s \in Sessions, u \in UsernameInputs, p \in Passwords :
         ( /\ resp'.op = "login_password_verify"
           /\ resp'.sid = s /\ resp'.user = Strip(u)
           /\ ~\E r \in db : r.username = Strip(u) /\ r.password = p
           /\ login_password_verify(s, u, p) )
         => /\ session' = session
            /\ resp'.out = "invalid_credentials"]_vars

\* a wrong password was tried on an existing account
C1_Witness ==
    /\ resp.op = "login_password_verify"
    /\ resp.out = "invalid_credentials"
    /\ \E r \in db : r.username = resp.user

\* C2: an OTP login request whose (username, phone), as the handler reads them,
\* match no row makes no gateway call and records no pending challenge: a
\* request that does either carried a (username, phone) that matches a row.
C2_MismatchNoDispatch ==
    [][resp'.op = "login_otp_send" =>
         \/ /\ resp'.gw = None
            /\ session' = session
            /\ resp'.out = "not_found"
         \/ \A u \in UsernameInputs, a \in PhoneInputs, g \in SendResults :
               (Strip(u) = resp'.user /\ login_otp_send(resp'.sid, u, a, g))
               => \E r \in db : r.username = Strip(u) /\ r.phone = Strip(a)]_vars

\* the username has an account, the phone is not the stored one
C2_Witness ==
    /\ resp.op = "login_otp_send"
    /\ resp.out = "not_found"
    /\ \E r \in db : r.username = resp.user

\* C3: while a session holds the pending OTP challenge of u, a denied code
\* check leaves the challenge in place and an approved one logs the session in
\* through OTP; in particular the approved check that follows a denied one
\* succeeds with no new send.
C3_DeniedKeepsChallenge ==
    [][resp'.op = "login_otp_verify_page" =>
       \A s \in Sessions, q \in BOOLEAN, u \in UsernameInputs :
         /\ ( /\ resp'.sid = s /\ resp'.user = Strip(u)
              /\ session[s].otp_login_pending = Some(Strip(u))
              /\ login_otp_verify_page(s, q, u, "pending") )
            => /\ session' = session
               /\ resp'.out = "redirect_login_otp_verify_page"
         /\ ( /\ resp'.sid = s /\ resp'.user = Strip(u)
              /\ session[s].otp_login_pending = Some(Strip(u))
              /\ login_otp_verify_page(s, q, u, "approved") )
            => /\ Authenticated(session'[s], Strip(u), "OTP")
               /\ resp'.out = "redirect_dashboard"
         /\ ( /\ resp.op = "login_otp_verify_page"
              /\ resp.out = "redirect_login_otp_verify_page"
              /\ resp.sid = s /\ resp.user = Strip(u)
              /\ login_otp_verify_page(s, q, u, "approved") )
            => Authenticated(session'[s], Strip(u), "OTP")]_vars

\* a code was denied and the challenge is still held
C3_Witness ==
    /\ resp.op = "login_otp_verify_page"
    /\ resp.out = "redirect_login_otp_verify_page"
    /\ session[resp.sid].otp_login_pending = Some(resp.user)

\* session s holds no registration data for username
NoPendingRegistration(s, username) ==
    \/ session[s].registration_data = None
    \/ The(session[s].registration_data).username # username

\* C4 as stated: an enrolment in a session with no pending registration for u
\* is refused (any answer but a success counts as the state error) and leaves
\* the User table unchanged, for every u and sample.
C4_Original ==
    [][( /\ resp'.op = "save_reference_face"
         /\ NoPendingRegistration(resp'.sid, resp'.user) )
       => /\ db' = db
          /\ resp'.out \notin {"registered", "face_updated"}]_vars

\* C4 as amended: an enrolment in a session with no pending registration for u
\* inserts no row and changes no session; with no row named u the table is
\* unchanged and the request is sent to the login page (or back to the capture
\* page when the sample is too small); a row named u can only have its
\* face_data replaced.
C4_NoPendingNoInsert ==
    [][( /\ resp'.op = "save_reference_face"
         /\ NoPendingRegistration(resp'.sid, resp'.user) )
       => /\ session' = session
          /\ Cardinality(db') = Cardinality(db)
          /\ \A r \in db :
                \E q \in db' :
                   /\ q.username = r.username /\ q.password = r.password
                   /\ q.email = r.email /\ q.phone = r.phone
                   /\ (r.username # resp'.user => q.face_data = r.face_data)
          /\ (~\E r \in db : r.username = resp'.user)
                => /\ db' = db
                   /\ resp'.out \in {"redirect_login", "redirect_face_scan_page"}]_vars

\* an enrolment for a username with neither pending registration nor account,
\* in a session that holds the registration of another username
C4_Witness ==
    /\ resp.op = "save_reference_face"
    /\ resp.out = "redirect_login"
    /\ session[resp.sid].registration_data # None

\* C5: a face login for an account whose face_data is NULL or empty answers
\* "Face ID not set up" and changes no session, whatever the captured sample.
C5_NotEnrolledRejected ==
    [][\A s \in Sessions, u \in UsernameInputs, f \in Samples :
         ( /\ resp'.op = "login_face_verify"
           /\ resp'.sid = s /\ resp'.user = Strip(u)
           /\ \E r \in db : /\ r.username = Strip(u)
                            /\ (r.face_data = None \/ The(r.face_data).len = 0)
           /\ login_face_verify(s, u, f) )
         => /\ resp'.out = "face_not_set_up"
            /\ session' = session]_vars

\* a face login was refused for an existing account without face data
C5_Witness ==
    /\ resp.op = "login_face_verify"
    /\ resp.out = "face_not_set_up"
    /\ \E r \in db : r.username = resp.user /\ ~Truthy(r.face_data)

\* C6: whenever a step leaves a session logged in with changed login keys, the
\* step is a password login matching a row, an approved OTP check for the
\* username of the session's pending challenge, or a face login the matcher
\* accepts, and the keys name that username and that method.
C6_OnlyProtocolsLogIn ==
    [][\A s \in Sessions :
         ( /\ AuthKeys(session'[s]) # AuthKeys(session[s])
           /\ session'[s].logged_in = Some(TRUE) )
         => \/ \E u \in UsernameInputs, p \in Passwords :
                  /\ login_password_verify(s, u, p)
                  /\ \E r \in db : r.username = Strip(u) /\ r.password = p
                  /\ Authenticated(session'[s], Strip(u), "Password")
            \/ \E q \in BOOLEAN, u \in UsernameInputs :
                  /\ login_otp_verify_page(s, q, u, "approved")
                  /\ session[s].otp_login_pending = Some(Strip(u))
                  /\ Authenticated(session'[s], Strip(u), "OTP")
            \/ \E u \in UsernameInputs, f \in Samples :
                  /\ login_face_verify(s, u, f)
                  /\ \E r \in db : /\ r.username = Strip(u)
                                   /\ mock_verify_face(r.face_data, f)
                  /\ Authenticated(session'[s], Strip(u), "Face Scan")]_vars

\* a session logged in by face scan
C6_Witness ==
    \E s \in Sessions : Authenticated(session[s], UA, "Face Scan")

\* C7: every row of the table holds non-empty face data, and a registration
\* form alone writes no row.
C7_NoAccountWithoutFace ==
    /\ [](\A r \in db : r.face_data # None /\ The(r.face_data).len > 0)
    /\ [][resp'.op = "register" => db' = db]_vars

\* a row is stored while another registration is still pending
C7_Witness ==
    /\ db # {}
    /\ \E s \in Sessions : session[s].registration_data # None

\* C8: no two rows share a username, an email or a phone.
C8_UniqueKeys ==
    \A r1 \in db, r2 \in db :
        r1 # r2 => /\ r1.username # r2.username
                   /\ r1.email # r2.email
                   /\ r1.phone # r2.phone

\* a registration has just stored a second account
C8_Witness ==
    /\ Cardinality(db) = 2
    /\ resp.op = "save_reference_face"
    /\ resp.out = "registered"

C10_EndToEnd ==
    [][/\ \A s \in Sessions, u \in UsernameInputs, f \in Samples :
            ( /\ resp'.op = "save_reference_face"
              /\ resp'.sid = s /\ resp'.user = Strip(u)
              /\ session[s].registration_data # None
              /\ The(session[s].registration_data).username = Strip(u)
              /\ f.len >= MinFaceLen
              /\ ~\E r \in db :
                    \/ r.username = The(session[s].registration_data).username
                    \/ r.email = The(session[s].registration_data).email
                    \/ r.phone = The(session[s].registration_data).phone
              /\ save_reference_face(s, u, f, TRUE) )
            => LET rd == The(session[s].registration_data)
               IN  /\ resp'.out = "registered"
                   /\ db' = db \cup {User(rd.username, rd.password, rd.email,
                                          rd.phone, Some(f))}
       /\ \A s \in Sessions, u \in UsernameInputs, r \in db :
            ( /\ resp.op = "save_reference_face" /\ resp.out = "registered"
              /\ resp.user = r.username /\ Strip(u) = r.username
              /\ resp'.sid = s /\ resp'.user = r.username )
            => /\ login_password_verify(s, u, r.password)
                  => Authenticated(session'[s], r.username, "Password")
               /\ \A a \in PhoneInputs :
                     (Strip(a) = r.phone /\ login_otp_send(s, u, a, "pending"))
                     => /\ resp'.out = "redirect_login_otp_verify_page"
                        /\ resp'.gw = GwCall("create", r.phone)
                        /\ session'[s].otp_login_pending = Some(r.username)]_vars

\* an OTP request is accepted for an account that the third form of RegForms
\* has just registered
C10_Witness ==
    /\ resp.op = "login_otp_send"
    /\ resp.out = "redirect_login_otp_verify_page"
    /\ resp.user = UA
    /\ \E r \in db : r.username = UA /\ r.email = E2 /\ r.password = "p2"

\* C11: an OTP code check in a session that does not hold the pending
\* challenge of the submitted username calls no gateway, answers "Session
\* error" (or, with no username in the URL and no challenge at all, the
\* redirect to the OTP login page) and leaves every session and the table as
\* they were, whatever the other sessions hold.
C11_NoChallengeRejected ==
    [][( /\ resp'.op = "login_otp_verify_page"
         /\ session[resp'.sid].otp_login_pending # Some(resp'.user) )
       => /\ session' = session
          /\ db' = db
          /\ resp'.gw = None
          /\ resp'.out \in {"session_error", "redirect_login_otp_page"}]_vars

\* the check was refused in a logged-in session while another session holds
\* the pending challenge of the same username
C11_Witness ==
    /\ resp.op = "login_otp_verify_page"
    /\ resp.out = "session_error"
    /\ session[resp.sid].logged_in = Some(TRUE)
    /\ \E t \in Sessions \ {resp.sid} :
          session[t].otp_login_pending = Some(resp.user)

\* C12: a logout leaves its session with no login keys, no pending OTP
\* challenge and no registration data, and changes neither the other sessions
\* nor the table; the next request of that session, if it is the dashboard, is
\* redirected to the login page; if an OTP code check, is refused with every
\* session unchanged; if an enrolment, does not take the registration path and
\* inserts no row.
C12_LogoutClearsAll ==
    [][/\ resp'.op = "logout"
          => /\ session'[resp'.sid] = EmptySession
             /\ \A t \in Sessions \ {resp'.sid} : session'[t] = session[t]
             /\ db' = db
       /\ (resp.op = "logout" /\ resp'.sid = resp.sid)
          => /\ resp'.op = "dashboard" => resp'.out = "redirect_login"
             /\ resp'.op = "login_otp_verify_page"
                => /\ resp'.out \in {"session_error", "redirect_login_otp_page"}
                   /\ session' = session
             /\ resp'.op = "save_reference_face"
                => /\ resp'.out \notin {"registered", "db_error"}
                   /\ Cardinality(db') = Cardinality(db)
                   /\ session' = session]_vars

\* a session has logged out while the other one is still logged in
C12_Witness ==
    /\ resp.op = "logout"
    /\ steps = MaxSteps
    /\ session[resp.sid] = EmptySession
    /\ \E t \in Sessions \ {resp.sid} : session[t].logged_in = Some(TRUE)

\* C13: the dashboard shows account details only to a session whose login
\* keys are set, and the details are those of the row named by the session's
\* username; a session with no login flag gets the redirect to the login page,
\* and the request changes no session and no row.
C13_DashboardNeedsLogin ==
    [][resp'.op = "dashboard" =>
         /\ resp'.out = "dashboard"
            => /\ session[resp'.sid].logged_in = Some(TRUE)
               /\ session[resp'.sid].username = Some(resp'.user)
               /\ session[resp'.sid].login_method # None
               /\ \E r \in db : r.username = resp'.user
         /\ session[resp'.sid].logged_in # Some(TRUE)
            => /\ resp'.out = "redirect_login"
               /\ session' = session
               /\ db' = db]_vars

\* the dashboard was refused to a session while the other one is logged in
C13_Witness ==
    /\ resp.op = "dashboard"
    /\ resp.out = "redirect_login"
    /\ \E t \in Sessions \ {resp.sid} : session[t].logged_in = Some(TRUE)

\* a row named username whose password is not the submitted one
WrongSecretRows(username, password) ==
    { User(username, q, e, ph, Some(Sample(101, 1))) :
        q \in Passwords \ {password}, e \in Emails, ph \in Phones }

\* C14: for every reachable table and session and every submitted (username,
\* password), the password login answers the same and leaves the same session
\* over the table without a row named username as over that table with a row
\* named username holding another password.
C14_UnknownAsWrongSecret ==
    \A s \in Sessions, u \in UsernameInputs, p \in Passwords :
        LET without == db \ ByUsername(db, Strip(u))
        IN  \A row \in WrongSecretRows(Strip(u), p) :
               password_verify(without, session[s], Strip(u), p)
                 = password_verify(without \cup {row}, session[s], Strip(u), p)

\* a password login for a username with no row, in a table that holds rows
C14_Witness ==
    /\ resp.op = "login_password_verify"
    /\ resp.out = "invalid_credentials"
    /\ db # {}
    /\ ~\E r \in db : r.username = resp.user

\* some row holds this username together with this phone
Matches(rows, username, phone) ==
    \E r \in rows : r.username = username /\ r.phone = phone

\* C15: an OTP login request or a reset request with a well-formed phone that
\* matches no row together with the username gets the one "User not found or
\* phone number does not match" answer, makes no gateway call and changes no
\* session and no row, both when no row has the username and when a row has
\* it with another phone.
C15_GenericRejection ==
    [][resp'.op \in {"login_otp_send", "forgot_password"} =>
         \/ /\ resp'.out = "not_found"
            /\ resp'.gw = None
            /\ session' = session
            /\ db' = db
         \/ \A u \in UsernameInputs :
               resp'.user = Strip(u) =>
               \A a \in PhoneInputs :
                  (~PhoneInvalid(Strip(a)) /\ ~Matches(db, Strip(u), Strip(a))) =>
                  \A g \in SendResults :
                     /\ resp'.op = "login_otp_send"
                        => ~login_otp_send(resp'.sid, u, a, g)
                     /\ resp'.op = "forgot_password"
                        => ~forgot_password(resp'.sid, u, a, g)]_vars

\* a reset was requested for an existing username with a well-formed phone
\* that is not the stored one
C15_Witness ==
    /\ resp.op = "forgot_password"
    /\ resp.out = "not_found"
    /\ \E r \in db : r.username = resp.user

\* C16: an approved code check for the username of the session's pending
\* challenge logs the session in through OTP and removes the challenge; a code
\* check that follows in that session is refused and changes nothing; and a
\* session without a challenge gets one only from an OTP login request.
C16_ChallengeConsumedOnce ==
    [][/\ resp'.op = "login_otp_verify_page" =>
          \A u \in UsernameInputs :
             ( /\ resp'.user = Strip(u)
               /\ session[resp'.sid].otp_login_pending = Some(Strip(u)) ) =>
             \A q \in BOOLEAN :
                login_otp_verify_page(resp'.sid, q, u, "approved")
                => /\ resp'.out = "redirect_dashboard"
                   /\ Authenticated(session'[resp'.sid], Strip(u), "OTP")
                   /\ session'[resp'.sid].otp_login_pending = None
       /\ ( /\ resp.op = "login_otp_verify_page"
            /\ resp.out = "redirect_dashboard"
            /\ resp'.op = "login_otp_verify_page"
            /\ resp'.sid = resp.sid )
          => /\ resp'.out \in {"session_error", "redirect_login_otp_page"}
             /\ resp'.gw = None
             /\ session' = session
       /\ \A s \in Sessions :
             ( /\ session[s].otp_login_pending = None
               /\ session'[s].otp_login_pending # None )
             => resp'.op = "login_otp_send" /\ resp'.sid = s]_vars

\* a second code check was refused in the session that the first one logged in
C16_Witness ==
    /\ resp.op = "login_otp_verify_page"
    /\ resp.out = "session_error"
    /\ Authenticated(session[resp.sid], resp.user, "OTP")
    /\ session[resp.sid].otp_login_pending = None

\* the answers given when the gateway raises or refuses
GatewayFailures == {"sms_error", "sms_failed", "verify_error"}

\* C17: a request answered with a gateway failure changes no session and no
\* row; an OTP login request whose dispatch raises or returns a status other
\* than pending, a code check of the pending challenge that raises, and a
\* reset code check that raises are all answered with a gateway failure.
C17_GatewayFailureChangesNothing ==
    [][/\ resp'.out \in GatewayFailures
          => /\ session' = session
             /\ db' = db
             /\ resp'.gw # None
       /\ resp'.op = "login_otp_send" =>
          \A u \in UsernameInputs :
             resp'.user = Strip(u) =>
             \A a \in PhoneInputs :
                Matches(db, Strip(u), Strip(a)) =>
                \A g \in SendResults \ {"pending"} :
                   login_otp_send(resp'.sid, u, a, g)
                   => resp'.out \in {"sms_error", "sms_failed"}
       /\ resp'.op = "login_otp_verify_page" =>
          \A u \in UsernameInputs :
             ( /\ resp'.user = Strip(u)
               /\ session[resp'.sid].otp_login_pending = Some(Strip(u)) ) =>
             \A q \in BOOLEAN :
                login_otp_verify_page(resp'.sid, q, u, "raise")
                => resp'.out = "verify_error"
       /\ resp'.op = "reset_password_page" =>
          \A u \in UsernameInputs :
             (resp'.user = Strip(u) /\ ByUsername(db, Strip(u)) # {}) =>
             \A p \in Passwords :
                reset_password_page(resp'.sid, u, p, "raise")
                => resp'.out = "verify_error"]_vars

\* a dispatch failed in a session that holds the challenge of another username
C17_Witness ==
    /\ resp.op = "login_otp_send"
    /\ resp.out \in {"sms_error", "sms_failed"}
    /\ session[resp.sid].otp_login_pending # None
    /\ session[resp.sid].otp_login_pending # Some(resp.user)

\* C18: a resend for a username that has a row calls the gateway with the
\* phone of that row, whatever the session holds and also when the request
\* before it was itself a dispatch for that username; a resend changes no
\* session (so no pending challenge and no login key) and no row.
C18_ResendOnlyDispatches ==
    [][resp'.op = "resend_otp" =>
         /\ session' = session
         /\ db' = db
         /\ \A r \in db :
               r.username = resp'.user => resp'.gw = GwCall("create", r.phone)
         /\ ( /\ resp.gw # None
              /\ The(resp.gw).kind = "create"
              /\ resp.user = resp'.user )
            => resp'.gw = resp.gw]_vars

\* a resend was dispatched in a session that holds no pending challenge, after
\* the other session was sent a code for the same username
C18_Witness ==
    /\ resp.op = "resend_otp"
    /\ resp.gw # None
    /\ steps >= 2
    /\ session[resp.sid].otp_login_pending = None
    /\ \E t \in Sessions \ {resp.sid} : session[t].otp_login_pending = Some(resp.user)

DispatchTo(user) == IF user = None THEN None ELSE Some(The(user).phone)

\* C20: over every reachable table and for every submitted (username, phone),
\* a reset request calls the gateway exactly when an OTP login request would,
\* and with the same stored phone.
C20_SameDispatchRule ==
    \A u \in UsernameInputs, a \in PhoneInputs :
        DispatchTo(forgot_password_user(db, Strip(u), Strip(a)))
          = DispatchTo(otp_send_user(db, Strip(u), Strip(a)))

\* a reset request was dispatched to the stored phone of its username
C20_Witness ==
    /\ resp.op = "forgot_password"
    /\ \E r \in db : /\ r.username = resp.user
                     /\ resp.gw = GwCall("create", r.phone)

\* a contact address that begins with '+', has at least 5 characters and has
\* only digits after the first
WellFormed(phone) ==
    /\ Len(phone) >= 5
    /\ phone[1] = "+"
    /\ \A i \in 2..Len(phone) : phone[i] \in Digits

\* the registration data a form leaves when its fields are stored as given
AsSubmitted(f) ==
    [username |-> f.username, password |-> f.password,
     email |-> f.email, phone |-> f.phone]

\* the registration data a form leaves when username, email and phone are
\* trimmed of surrounding whitespace
Trimmed(f) ==
    [username |-> Strip(f.username), password |-> f.password,
     email |-> Strip(f.email), phone |-> Strip(f.phone)]

\* C21 as stated: a registration form leaves the session holding exactly its
\* fields if and only if its username names no row and its phone is
\* well-formed, and is refused with nothing stored otherwise.
C21_Original ==
    [][resp'.op = "register" =>
       \A f \in RegForms :
          ( /\ resp'.user = Strip(f.username)
            /\ register(resp'.sid, f.username, f.password, f.email, f.phone) )
          => IF ByUsername(db, f.username) = {} /\ WellFormed(f.phone)
             THEN session'[resp'.sid].registration_data = Some(AsSubmitted(f))
             ELSE /\ session' = session
                  /\ resp'.out \in {"username_exists", "phone_invalid"}]_vars

\* C21 as amended: a registration form leaves the session holding its fields,
\* with username, email and phone trimmed and the password as given, if and
\* only if the trimmed username names no row and the trimmed phone is
\* well-formed; otherwise it is refused and no session changes. The table is
\* unchanged either way.
C21_SubmitStoresTrimmed ==
    [][resp'.op = "register" =>
       \A f \in RegForms :
          ( /\ resp'.user = Strip(f.username)
            /\ register(resp'.sid, f.username, f.password, f.email, f.phone) )
          => /\ db' = db
             /\ IF ByUsername(db, Strip(f.username)) = {} /\ WellFormed(Strip(f.phone))
                THEN /\ session' = [session EXCEPT
                            ![resp'.sid].registration_data = Some(Trimmed(f))]
                     /\ resp'.out = "redirect_face_scan_page"
                ELSE /\ session' = session
                     /\ resp'.out \in {"username_exists", "phone_invalid"}]_vars

\* the form typed with surrounding blanks was accepted and is held trimmed
C21_Witness ==
    /\ resp.op = "register"
    /\ resp.out = "redirect_face_scan_page"
    /\ session[resp.sid].registration_data
         = Some([username |-> UB, password |-> "p2", email |-> E2, phone |-> P2])

\* C22: a registration form refused for its username or its phone, an
\* enrolment sent back to the capture page, and a reset request refused for
\* its phone change no session and no row and call no gateway; and a form
\* whose trimmed username has a row or whose trimmed phone is malformed, an
\* enrolment whose sample is missing or under the size threshold, and a reset
\* request whose trimmed phone is malformed are all refused in that way.
C22_ValidationChangesNothing ==
    [][/\ ( \/ resp'.out \in {"username_exists", "phone_invalid"}
            \/ /\ resp'.op = "save_reference_face"
               /\ resp'.out = "redirect_face_scan_page" )
          => /\ session' = session
             /\ db' = db
             /\ resp'.gw = None
       /\ resp'.op = "register" =>
          \/ resp'.out \in {"username_exists", "phone_invalid"}
          \/ \A f \in RegForms :
                ( /\ resp'.user = Strip(f.username)
                  /\ \/ ByUsername(db, Strip(f.username)) # {}
                     \/ ~WellFormed(Strip(f.phone)) )
                => ~register(resp'.sid, f.username, f.password, f.email, f.phone)
       /\ resp'.op = "save_reference_face" =>
          \/ resp'.out = "redirect_face_scan_page"
          \/ \A u \in UsernameInputs :
                resp'.user = Strip(u) =>
                \A f \in Samples :
                   f.len < MinFaceLen =>
                   \A ok \in BOOLEAN : ~save_reference_face(resp'.sid, u, f, ok)
       /\ resp'.op = "forgot_password" =>
          \/ resp'.out = "phone_invalid"
          \/ \A u \in UsernameInputs :
                resp'.user = Strip(u) =>
                \A a \in PhoneInputs :
                   ~WellFormed(Strip(a)) =>
                   \A g \in SendResults : ~forgot_password(resp'.sid, u, a, g)]_vars

\* an enrolment was sent back to the capture page and the session still holds
\* the registration data of its username
C22_Witness ==
    /\ resp.op = "save_reference_face"
    /\ resp.out = "redirect_face_scan_page"
    /\ session[resp.sid].registration_data # None
    /\ The(session[resp.sid].registration_data).username = resp.user

\* the insert of a row made of registration data rd is accepted by the table
InsertAccepted(rd) ==
    ~\E r \in db : \/ r.username = rd.username
                   \/ r.email = rd.email
                   \/ r.phone = rd.phone

\* C23: an enrolment in the session that holds the registration data of its
\* username, with a sample of at least the minimum size, the commit succeeding
\* and no unique column taken, adds exactly the one row made of that data and
\* the sample and removes the registration data from the session; the
\* enrolment for that username that follows in that session adds no row.
C23_EnrollInsertsOnce ==
    [][resp'.op = "save_reference_face" =>
         /\ \A u \in UsernameInputs :
              ( /\ resp'.user = Strip(u)
                /\ session[resp'.sid].registration_data # None
                /\ The(session[resp'.sid].registration_data).username = Strip(u)
                /\ InsertAccepted(The(session[resp'.sid].registration_data)) ) =>
              \A f \in Samples :
                 f.len >= MinFaceLen =>
                 ( save_reference_face(resp'.sid, u, f, TRUE)
                   => LET rd == The(session[resp'.sid].registration_data)
                      IN  /\ resp'.out = "registered"
                          /\ db' = db \cup {User(rd.username, rd.password,
                                                 rd.email, rd.phone, Some(f))}
                          /\ Cardinality(db') = Cardinality(db) + 1
                          /\ session' = [session EXCEPT
                                 ![resp'.sid].registration_data = None] )
         /\ ( /\ resp.op = "save_reference_face"
              /\ resp.out = "registered"
              /\ resp'.sid = resp.sid
              /\ resp'.user = resp.user )
            => /\ Cardinality(db') = Cardinality(db)
               /\ resp'.out \notin {"registered", "db_error"}
               /\ \A r \in db' : \E q \in db : q.username = r.username]_vars

\* an enrolment was repeated for the account that the third form of RegForms
\* registered, and found no registration data
C23_Witness ==
    /\ resp.op = "save_reference_face"
    /\ resp.out = "face_updated"
    /\ resp.user = UA
    /\ session[resp.sid].registration_data = None
    /\ Cardinality(db) = 1
    /\ \E r \in db : r.username = UA /\ r.email = E2

\* C24: an enrolment on the registration path whose insert fails (the commit
\* raises, or a unique column is taken) answers the database error and leaves
\* the table and every session, the registration data included, as they were;
\* the enrolment for that username that follows in that session, with a sample
\* of at least the minimum size and an insert the table accepts, stores the
\* row made of the registration data still held.
C24_FailedInsertKeepsRegistration ==
    [][resp'.op = "save_reference_face" =>
         /\ \A u \in UsernameInputs :
              ( /\ resp'.user = Strip(u)
                /\ session[resp'.sid].registration_data # None
                /\ The(session[resp'.sid].registration_data).username = Strip(u) ) =>
              \A f \in Samples :
                 f.len >= MinFaceLen =>
                 \A ok \in BOOLEAN :
                    ( /\ ~ok \/ ~InsertAccepted(The(session[resp'.sid].registration_data))
                      /\ save_reference_face(resp'.sid, u, f, ok) )
                    => /\ resp'.out = "db_error"
                       /\ db' = db
                       /\ session' = session
         /\ ( /\ resp.op = "save_reference_face"
              /\ resp.out = "db_error"
              /\ resp'.sid = resp.sid
              /\ resp'.user = resp.user )
            => /\ session[resp'.sid].registration_data # None
               /\ The(session[resp'.sid].registration_data).username = resp'.user
               /\ \A u \in UsernameInputs, f \in Samples :
                    ( /\ resp'.user = Strip(u)
                      /\ f.len >= MinFaceLen
                      /\ InsertAccepted(The(session[resp'.sid].registration_data))
                      /\ save_reference_face(resp'.sid, u, f, TRUE) )
                    => LET rd == The(session[resp'.sid].registration_data)
                       IN  /\ resp'.out = "registered"
                           /\ db' = db \cup {User(rd.username, rd.password,
                                                  rd.email, rd.phone, Some(f))}]_vars

\* an insert failed and the session still holds the registration data
C24_Witness ==
    /\ resp.op = "save_reference_face"
    /\ resp.out = "db_error"
    /\ session[resp.sid].registration_data # None
    /\ The(session[resp.sid].registration_data).username = resp.user
    /\ ~\E r \in db : r.username = resp.user

\* C25: an enrolment with a sample of at least the minimum size, in a session
\* that holds no registration data for its username, for a username that has a
\* row: when the commit succeeds the table becomes the old one with that row's
\* face_data replaced by the sample and nothing else changed; when it fails
\* the table is unchanged; no session changes either way, and the login keys
\* of the session are not consulted.
C25_FallbackReplacesReference ==
    [][resp'.op = "save_reference_face" =>
       \A u \in UsernameInputs :
          ( /\ resp'.user = Strip(u)
            /\ NoPendingRegistration(resp'.sid, Strip(u))
            /\ ByUsername(db, Strip(u)) # {} ) =>
          \A f \in Samples :
             f.len >= MinFaceLen =>
             \A ok \in BOOLEAN :
                save_reference_face(resp'.sid, u, f, ok)
                => LET row == CHOOSE r \in db : r.username = Strip(u)
                   IN  /\ session' = session
                       /\ IF ok
                          THEN /\ resp'.out = "face_updated"
                               /\ db' = (db \ {row}) \cup
                                        {[row EXCEPT !.face_data = Some(f)]}
                          ELSE /\ resp'.out = "update_error"
                               /\ db' = db]_vars

\* the stored sample of the first seeded row was replaced through a session
\* that is not logged in
C25_Witness ==
    /\ resp.op = "save_reference_face"
    /\ resp.out = "face_updated"
    /\ session[resp.sid].logged_in = None
    /\ \E r \in db : /\ r.username = resp.user
                     /\ r.email = E1
                     /\ r.face_data = Some(Sample(100, 1))

\* the handlers that log a session in, and the method each one records
LoginOps == {"login_password_verify", "login_otp_verify_page", "login_face_verify"}
MethodOf(op) ==
    IF op = "login_password_verify" THEN "Password"
    ELSE IF op = "login_otp_verify_page" THEN "OTP"
    ELSE "Face Scan"

\* C26: a successful login of any of the three kinds leaves its session logged
\* in as its own username and method, whatever login keys the session held
\* before; in particular, of two successes in one session the later one
\* decides the username and the method.
C26_LastLoginWins ==
    [][( /\ resp'.op \in LoginOps
         /\ resp'.out = "redirect_dashboard" )
       => /\ Authenticated(session'[resp'.sid], resp'.user, MethodOf(resp'.op))
          /\ \A t \in Sessions \ {resp'.sid} : session'[t] = session[t]
          /\ ( /\ resp.op \in LoginOps
               /\ resp.out = "redirect_dashboard"
               /\ resp.sid = resp'.sid )
             => AuthKeys(session'[resp'.sid])
                  = <<Some(TRUE), Some(resp'.user), Some(MethodOf(resp'.op))>>]_vars

\* a face login succeeded for one username in a session that holds the pending
\* OTP challenge of another
C26_Witness ==
    /\ resp.op = "login_face_verify"
    /\ resp.out = "redirect_dashboard"
    /\ Authenticated(session[resp.sid], resp.user, "Face Scan")
    /\ session[resp.sid].otp_login_pending # None
    /\ session[resp.sid].otp_login_pending # Some(resp.user)

\* C27: the table changes only in an enrolment that registers or updates face
\* data and in an approved reset; a row's password changes only in an approved
\* reset for its username, its face_data only in an enrolment for its
\* username, its username, email and phone never; no row is removed; and one
\* request adds or changes at most one row.
C27_StoreWriters ==
    [][/\ db' # db
          => \/ /\ resp'.op = "save_reference_face"
                /\ resp'.out \in {"registered", "face_updated"}
             \/ /\ resp'.op = "reset_password_page"
                /\ resp'.out = "reset_ok"
       /\ Cardinality(db' \ db) <= 1
       /\ Cardinality(db \ db') <= 1
       /\ \A r \in db :
             \E q \in db' :
                /\ q.username = r.username
                /\ q.email = r.email
                /\ q.phone = r.phone
                /\ q.password # r.password
                   => /\ resp'.op = "reset_password_page"
                      /\ resp'.out = "reset_ok"
                      /\ resp'.user = r.username
                /\ q.face_data # r.face_data
                   => /\ resp'.op = "save_reference_face"
                      /\ resp'.out = "face_updated"
                      /\ resp'.user = r.username]_vars

\* a reset has changed the password of the first seeded row and left the
\* second as it was
C27_Witness ==
    /\ resp.op = "reset_password_page"
    /\ resp.out = "reset_ok"
    /\ RowB \in db
    /\ [RowA EXCEPT !.password = "p2"] \in db

\* C28 as stated: a face login for a username with no row and a face login
\* for a row without face data get the one "not set up" answer, and neither
\* changes a session.
C28_Original ==
    [][( /\ resp'.op = "login_face_verify"
         /\ \/ ByUsername(db, resp'.user) = {}
            \/ \E r \in db : r.username = resp'.user /\ ~Truthy(r.face_data) )
       => /\ resp'.out = "face_not_set_up"
          /\ session' = session]_vars

\* the last request was a login step that did not succeed: an OTP request not
\* followed by the redirect to the code form, or a password, code or face
\* check not followed by the redirect to the dashboard
LoginStepFailed(r) ==
    \/ /\ r.op = "login_otp_send"
       /\ r.out # "redirect_login_otp_verify_page"
    \/ /\ r.op \in LoginOps
       /\ r.out # "redirect_dashboard"

\* C29: a login step of any of the four kinds that does not succeed changes
\* no session, so the login keys and the pending challenge of its session are
\* as before, and no row.
C29_FailedStepChangesNothing ==
    [][LoginStepFailed(resp') => session' = session /\ db' = db]_vars

\* a face scan failed in a session that is logged in by password and holds a
\* pending OTP challenge
C29_Witness ==
    /\ resp.op = "login_face_verify"
    /\ resp.out = "face_scan_failed"
    /\ session[resp.sid].login_method = Some("Password")
    /\ session[resp.sid].otp_login_pending # None

\* C30 as stated: right after an enrolment has stored a sample as the face
\* data of a row, a face login for that username with the same sample logs
\* the session in by face scan, for every sample the enrolment accepts.
C30_Original ==
    [][( /\ resp.op = "save_reference_face"
         /\ resp.out \in {"registered", "face_updated"}
         /\ resp'.op = "login_face_verify"
         /\ resp'.user = resp.user ) =>
       \A u \in UsernameInputs, f \in Samples :
          ( /\ Strip(u) = resp'.user
            /\ \E r \in db : r.username = resp.user /\ r.face_data = Some(f)
            /\ login_face_verify(resp'.sid, u, f) )
          => /\ resp'.out = "redirect_dashboard"
             /\ Authenticated(session'[resp'.sid], resp'.user, "Face Scan")]_vars

\* C31: an accepted OTP request leaves its session holding the challenge of
\* its own username in place of any challenge held before; in the code check
\* that follows in that session an approved code for any other username is
\* answered with the session error and changes nothing, while an approved
\* code for that username logs the session in through OTP.
C31_OnePendingChallenge ==
    [][/\ ( /\ resp'.op = "login_otp_send"
            /\ resp'.out = "redirect_login_otp_verify_page" )
          => /\ session'[resp'.sid].otp_login_pending = Some(resp'.user)
             /\ \A t \in Sessions \ {resp'.sid} : session'[t] = session[t]
       /\ ( /\ resp.op = "login_otp_send"
            /\ resp.out = "redirect_login_otp_verify_page"
            /\ resp'.op = "login_otp_verify_page"
            /\ resp'.sid = resp.sid ) =>
          \A u \in UsernameInputs :
             resp'.user = Strip(u) =>
             \A q \in BOOLEAN :
                login_otp_verify_page(resp'.sid, q, u, "approved")
                => IF Strip(u) = resp.user
                   THEN /\ resp'.out = "redirect_dashboard"
                        /\ Authenticated(session'[resp'.sid], Strip(u), "OTP")
                   ELSE /\ resp'.out = "session_error"
                        /\ resp'.gw = None
                        /\ session' = session]_vars

\* after two requests and a code check, the check for an existing account was
\* refused in a session that holds the challenge of the other username
C31_Witness ==
    /\ resp.op = "login_otp_verify_page"
    /\ resp.out = "session_error"
    /\ steps = MaxSteps
    /\ ByUsername(db, resp.user) # {}
    /\ session[resp.sid].otp_login_pending # None
    /\ session[resp.sid].otp_login_pending # Some(resp.user)
    /\ \A t \in Sessions \ {resp.sid} : session[t] = EmptySession

Methods == {"Password", "OTP", "Face Scan"}

\* C33: in every reachable state a session whose login flag is set holds a
\* username that names a row of the table and a method that is one of
\* Password, OTP and Face Scan; and the method of a session changes only in a
\* successful login of that session, which records its own method, or in its
\* logout.
C33_AuthenticatedSessionSound ==
    /\ [](\A s \in Sessions :
            session[s].logged_in = Some(TRUE)
            => /\ session[s].username # None
               /\ ByUsername(db, The(session[s].username)) # {}
               /\ session[s].login_method # None
               /\ The(session[s].login_method) \in Methods)
    /\ [][\A s \in Sessions :
            session'[s].login_method # session[s].login_method
            => /\ resp'.sid = s
               /\ \/ resp'.op = "logout"
                  \/ /\ resp'.op \in LoginOps
                     /\ resp'.out = "redirect_dashboard"
                     /\ session'[s].login_method = Some(MethodOf(resp'.op))]_vars

\* two sessions are logged in, as different usernames and by different methods
C33_Witness ==
    /\ Authenticated(session["s1"], UA, "Password")
    /\ Authenticated(session["s2"], UB, "OTP")

\* C34: after two sessions stored registration data for one username that has
\* no row, no username ever has two rows; the enrolment that finds no row of
\* the username, with a sample of at least the minimum size, a succeeding
\* commit and no unique column taken, inserts the row made of its own
\* session's data; an enrolment in a session that still holds registration
\* data for a username that has a row by then answers the database error,
\* keeps its registration data and leaves the table, the stored row's
\* password, email, phone and face data included, as it was.
C34_RaceOneInsert ==
    /\ [](\A r1 \in db : \A r2 \in db : r1.username = r2.username => r1 = r2)
    /\ [][resp'.op = "save_reference_face" =>
            \A u \in UsernameInputs :
               ( /\ resp'.user = Strip(u)
                 /\ session[resp'.sid].registration_data # None
                 /\ The(session[resp'.sid].registration_data).username = Strip(u) ) =>
               \A f \in Samples :
                  f.len >= MinFaceLen =>
                  \A ok \in BOOLEAN :
                     save_reference_face(resp'.sid, u, f, ok)
                     => LET rd == The(session[resp'.sid].registration_data)
                        IN  IF \E r \in db : r.username = Strip(u)
                            THEN /\ resp'.out = "db_error"
                                 /\ db' = db
                                 /\ session' = session
                            ELSE (ok /\ InsertAccepted(rd)) =>
                                 /\ resp'.out = "registered"
                                 /\ db' = db \cup {User(rd.username, rd.password,
                                                        rd.email, rd.phone, Some(f))}
                                 /\ session'[resp'.sid].registration_data = None
                                 /\ \A t \in Sessions \ {resp'.sid} :
                                       session'[t] = session[t]]_vars

\* both sessions held registration data for one username; the other session's
\* enrolment inserted the row, and this session's enrolment then failed with
\* its registration data still held and the row still the winner's
C34_Witness ==
    /\ resp.op = "save_reference_face"
    /\ resp.out = "db_error"
    /\ steps = 2
    /\ session[resp.sid].registration_data = Some(RaceRegistrations[resp.sid])
    /\ \E t \in Sessions \ {resp.sid} :
          /\ session[t].registration_data = None
          /\ \E f \in Samples :
                db = {User(UA, RaceRegistrations[t].password,
                           RaceRegistrations[t].email,
                           RaceRegistrations[t].phone, Some(f))}

\* the email or the phone of registration data rd is that of a stored row
ContactTaken(rows, rd) ==
    \E r \in rows : r.email = rd.email \/ r.phone = rd.phone

\* C35: a registration form whose trimmed username has no row and whose
\* trimmed phone is well-formed is accepted and stored in the session even
\* when its email or its phone is that of a stored row; while a session holds
\* registration data whose email or phone a row has, every enrolment for its
\* username with a sample of at least the minimum size answers the database
\* error and leaves the table and every session as they were; and such
\* registration data stays in its session, its email or phone still taken,
\* through every request except a registration or a logout of that session.
C35_TakenContactBlocksEnroll ==
    [][/\ resp'.op = "register" =>
            \A f \in RegForms :
               ( /\ resp'.user = Strip(f.username)
                 /\ ByUsername(db, Strip(f.username)) = {}
                 /\ WellFormed(Strip(f.phone))
                 /\ ContactTaken(db, Trimmed(f))
                 /\ register(resp'.sid, f.username, f.password, f.email, f.phone) )
               => /\ resp'.out = "redirect_face_scan_page"
                  /\ session'[resp'.sid].registration_data = Some(Trimmed(f))
                  /\ db' = db
       /\ resp'.op = "save_reference_face" =>
            \A u \in UsernameInputs :
               ( /\ resp'.user = Strip(u)
                 /\ session[resp'.sid].registration_data # None
                 /\ The(session[resp'.sid].registration_data).username = Strip(u)
                 /\ ContactTaken(db, The(session[resp'.sid].registration_data)) ) =>
               \A f \in Samples :
                  f.len >= MinFaceLen =>
                  \A ok \in BOOLEAN :
                     save_reference_face(resp'.sid, u, f, ok)
                     => /\ resp'.out = "db_error"
                        /\ db' = db
                        /\ session' = session
       /\ \A s \in Sessions :
            ( /\ session[s].registration_data # None
              /\ ContactTaken(db, The(session[s].registration_data)) )
            => \/ /\ session'[s].registration_data = session[s].registration_data
                  /\ ContactTaken(db', The(session[s].registration_data))
               \/ /\ resp'.sid = s
                  /\ resp'.op \in {"register", "logout"}]_vars

\* a form with a new username and the email of a stored row was accepted, and
\* an enrolment for it failed with the registration data still held and no
\* row of that username stored
C35_Witness ==
    /\ resp.op = "save_reference_face"
    /\ resp.out = "db_error"
    /\ resp.user = UB
    /\ steps = 3
    /\ db = {RowA}
    /\ session[resp.sid].registration_data
         = Some([username |-> UB, password |-> "p1", email |-> E1, phone |-> P2])
====
